---- MODULE Spec2Model ----
(***************************************************************************)
(* Model of client/configuration.py (class Configuration): the layered     *)
(* merge of the configuration files, the %V substitution, the defaults,    *)
(* validate() and the lru_cache'd accessors.                               *)
(*                                                                         *)
(* Representation.  A Python str is a sequence of one-character strings;   *)
(* None and "" are both the empty sequence (the code only tests their      *)
(* truthiness).  A JSON list field is a record [isstr, items]: isstr is    *)
(* TRUE when the JSON value is a string where a list is expected (its      *)
(* items are then its characters).                                         *)
(***************************************************************************)
EXTENDS Integers, Sequences, FiniteSets, TLC

VARIABLES disk, environ, fs, callers, class_disabled, args, conf, pc, raised,
          binary_cache, search_path_cache, ret, built, validated,
          first_binary, first_search_path,
          repository_files, original_files, command, gathered, run,
          written, submitted

vars == <<disk, environ, fs, callers, class_disabled, args, conf, pc, raised,
          binary_cache, search_path_cache, ret, built, validated,
          first_binary, first_search_path,
          repository_files, original_files, command, gathered, run,
          written, submitted>>

(* the client's Configuration objects and their caches *)
client == <<args, conf, pc, raised, binary_cache, search_path_cache, ret,
            built, validated, first_binary, first_search_path>>

(* the state of the upgrade tool's update-global-version command *)
tool == <<repository_files, original_files, command, gathered, run,
          written, submitted>>

world == <<disk, environ, fs, callers, class_disabled>>

(* ---------------------------------------------------------------------- *)
(* Bounds                                                                  *)
(* ---------------------------------------------------------------------- *)
(* PYTHONPATH values are the strings over PathChars of at most this length *)
MaxPythonPath == 3

(* The Configuration objects the program may create *)
Instances == {"c1", "c2"}

(* ---------------------------------------------------------------------- *)
(* Strings                                                                 *)
(* ---------------------------------------------------------------------- *)
None == <<>>

Truthy(s) == s # <<>>

RECURSIVE Replace(_, _, _)
Replace(s, old, new) ==
  IF Len(s) < Len(old) THEN s
  ELSE IF SubSeq(s, 1, Len(old)) = old
       THEN new \o Replace(SubSeq(s, Len(old) + 1, Len(s)), old, new)
       ELSE <<Head(s)>> \o Replace(Tail(s), old, new)

PlaceholderToken == <<"%", "V">>

RECURSIVE Split(_, _)
Split(s, sep) ==
  IF \A k \in 1..Len(s) : s[k] # sep THEN <<s>>
  ELSE LET k == CHOOSE j \in 1..Len(s) :
                  s[j] = sep /\ \A m \in 1..(j - 1) : s[m] # sep
       IN <<SubSeq(s, 1, k - 1)>> \o Split(SubSeq(s, k + 1, Len(s)), sep)

Join(a, b) ==
  IF b # <<>> /\ Head(b) = "/" THEN b
  ELSE IF a = <<>> \/ a[Len(a)] = "/" THEN a \o b
  ELSE a \o <<"/">> \o b

Contains(seq, x) == \E k \in 1..Len(seq) : seq[k] = x

RECURSIVE SelectSeqBy(_, _)
SelectSeqBy(seq, keep) ==
  IF seq = <<>> THEN <<>>
  ELSE (IF Head(seq) \in keep THEN <<Head(seq)>> ELSE <<>>)
       \o SelectSeqBy(Tail(seq), keep)

StdlibSlash == <<"s", "t", "d", "l", "i", "b", "/">>

Stdlib == <<"s", "t", "d", "l", "i", "b">>

Digits == {"0", "1", "2", "3", "4", "5", "6", "7", "8", "9"}

(* ---------------------------------------------------------------------- *)
(* JSON list values                                                        *)
(* ---------------------------------------------------------------------- *)
List(items) == [isstr |-> FALSE, items |-> items]

Str(chars) == [isstr |-> TRUE, items |-> [k \in 1..Len(chars) |-> <<chars[k]>>]]

EmptyList == List(<<>>)

NonEmpty(v) == v.items # <<>>

(* ---------------------------------------------------------------------- *)
(* Configuration files on disk                                             *)
(* ---------------------------------------------------------------------- *)
CONFIGURATION_FILE == ".pyre_configuration"

CONFIGURATION_FILE_LOCAL == ".pyre_configuration.local"

(* A JSON object; a key that is absent carries the default that           *)
(* configuration.get(key, default) gives it.                              *)
EmptyObject ==
  [kind |-> "object",
   source_directories |-> EmptyList, link_trees |-> EmptyList,
   targets |-> EmptyList, disabled |-> "absent", logger |-> None,
   autogenerated |-> EmptyList, workers |-> 0, binary |-> None,
   search_path |-> <<>>, version |-> None, typeshed |-> None]

Missing == [EmptyObject EXCEPT !.kind = "missing"]

Malformed == [EmptyObject EXCEPT !.kind = "malformed"]

IsFile(path) == path \in DOMAIN disk /\ disk[path].kind # "missing"

FileAt(path) == IF path \in DOMAIN disk THEN disk[path] ELSE Missing

(* os.path.join(local_configuration, CONFIGURATION_FILE + ".local") *)
JoinLocal(directory) ==
  CASE directory = "d" -> "d/.pyre_configuration.local"
    [] directory = "f" -> "f/.pyre_configuration.local"
    [] OTHER -> CONFIGURATION_FILE_LOCAL

(* ---------------------------------------------------------------------- *)
(* Filesystem and environment probes                                       *)
(* ---------------------------------------------------------------------- *)
RECURSIVE Norm(_)
Norm(p) ==
  IF Len(p) > 1 /\ p[Len(p)] = "/" THEN Norm(SubSeq(p, 1, Len(p) - 1)) ELSE p

IsDir(p) == Norm(p) \in DOMAIN fs.listing

Exists(p) == IsDir(p) \/ p \in fs.files

ListDir(p) == fs.listing[Norm(p)]

(* number_of_workers() of the client package *)
DefaultWorkers == 4

(* ---------------------------------------------------------------------- *)
(* Configuration objects                                                   *)
(* ---------------------------------------------------------------------- *)
NoArgs ==
  [original_directory |-> "", local_configuration |-> "",
   search_path |-> <<>>, typeshed |-> None, preserve_pythonpath |-> FALSE]

(* The fields as the first statements of __init__ set them.  disabled is  *)
(* the instance attribute _disabled: <<>> while the object has none and   *)
(* the lookup falls through to the class attribute.                       *)
Fresh ==
  [source_directories |-> EmptyList, targets |-> EmptyList, logger |-> None,
   autogenerated |-> EmptyList, number_of_workers |-> 0,
   version_hash |-> None, binary |-> None, typeshed |-> None,
   search_directories |-> <<>>, disabled |-> <<>>]

Idle == \A j \in Instances : pc[j] \in {"none", "done", "raised"}

ConstructorFrame ==
  /\ UNCHANGED <<world, tool, binary_cache, search_path_cache, ret,
                 validated, first_binary, first_search_path>>

(* __init__, up to the first _read *)
InitFields(a) ==
  LET pythonpath == environ.PYTHONPATH
      fromenv == IF a.preserve_pythonpath /\ Truthy(pythonpath)
                 THEN SelectSeqBy(Split(pythonpath, ":"),
                                  {p \in {Split(pythonpath, ":")[k] :
                                            k \in 1..Len(Split(pythonpath, ":"))} :
                                     IsDir(p)})
                 ELSE <<>>
      fromarg == IF a.search_path # <<>> THEN a.search_path ELSE <<>>
  IN [Fresh EXCEPT !.search_directories = fromenv \o fromarg,
                   !.typeshed = IF Truthy(a.typeshed) THEN a.typeshed ELSE None]

Construct(i) ==
  /\ Idle
  /\ pc[i] = "none"
  /\ \E a \in callers[i] :
       /\ args' = [args EXCEPT ![i] = a]
       /\ conf' = [conf EXCEPT ![i] = InitFields(a)]
  /\ pc' = [pc EXCEPT ![i] = "read_override"]
  /\ UNCHANGED <<raised, built>>
  /\ ConstructorFrame

(* if not self.<field>: self.<field> = configuration.get(<key>) *)
IfNot_Overwrite(unset, current, offered) == offered

IfNot(unset, current, offered) == IF unset THEN offered ELSE current

(* if "disabled" in configuration: self._disabled = True *)
ReadDisabled_ByValue(current, key) ==
  IF key = "true" THEN <<TRUE>> ELSE current

ReadDisabled(current, key) == IF key # "absent" THEN <<TRUE>> ELSE current

(* self._search_directories.extend(configuration.get("search_path", [])) *)
Extend_Replace(current, offered) ==
  IF offered # <<>> THEN offered ELSE current

Extend(current, offered) == current \o offered

(* _read on a file that opened and parsed *)
ReadObject(c, f) ==
  LET sd1 == IfNot(~NonEmpty(c.source_directories), c.source_directories,
                   f.source_directories)
      sd2 == IfNot(~NonEmpty(sd1), sd1, f.link_trees)
  IN [source_directories |-> sd2,
      targets |-> IfNot(~NonEmpty(c.targets), c.targets, f.targets),
      disabled |-> ReadDisabled(c.disabled, f.disabled),
      logger |-> IfNot(~Truthy(c.logger), c.logger, f.logger),
      autogenerated |-> IfNot(~NonEmpty(c.autogenerated), c.autogenerated,
                              f.autogenerated),
      number_of_workers |-> IfNot(c.number_of_workers = 0,
                                  c.number_of_workers, f.workers),
      binary |-> IfNot(~Truthy(c.binary), c.binary, f.binary),
      search_directories |-> Extend(c.search_directories, f.search_path),
      version_hash |-> IfNot(~Truthy(c.version_hash), c.version_hash,
                             f.version),
      typeshed |-> IfNot(~Truthy(c.typeshed), c.typeshed, f.typeshed)]

(* _read(path): the new fields, or the exception raised *)
ReadRaises_Never(path) == FALSE

ReadRaises(path) == FileAt(path).kind = "malformed"

ReadFields(c, path) ==
  IF FileAt(path).kind = "object" THEN ReadObject(c, FileAt(path)) ELSE c

(* The path of the first _read, or "" when __init__ skips it *)
OverridePath(a) ==
  LET local_configuration ==
        IF a.local_configuration # "" THEN a.local_configuration
        ELSE a.original_directory
  IN IF local_configuration = "" THEN ""
     ELSE IF IsFile(local_configuration) THEN local_configuration
     ELSE JoinLocal(local_configuration)

ReadStep(i, path, next) ==
  /\ IF ReadRaises(path)
     THEN /\ pc' = [pc EXCEPT ![i] = "raised"]
          /\ raised' = [raised EXCEPT ![i] = "EnvironmentException"]
          /\ UNCHANGED conf
     ELSE /\ pc' = [pc EXCEPT ![i] = next]
          /\ conf' = [conf EXCEPT ![i] = ReadFields(conf[i], path)]
          /\ UNCHANGED raised
  /\ UNCHANGED <<args, built>>
  /\ ConstructorFrame

ReadOverride(i) ==
  /\ pc[i] = "read_override"
  /\ IF OverridePath(args[i]) = ""
     THEN /\ pc' = [pc EXCEPT ![i] = "read_local"]
          /\ UNCHANGED <<conf, raised, args, built>>
          /\ ConstructorFrame
     ELSE ReadStep(i, OverridePath(args[i]), "read_local")

ReadLocal(i) ==
  /\ pc[i] = "read_local"
  /\ ReadStep(i, CONFIGURATION_FILE_LOCAL, "read_global")

ReadGlobal(i) ==
  /\ pc[i] = "read_global"
  /\ ReadStep(i, CONFIGURATION_FILE, "resolve")

ResolvedFields(c) ==
  LET version_hash == c.version_hash
      binary == c.binary
  IN [c EXCEPT
        !.binary = IF Truthy(version_hash) /\ Truthy(binary)
                   THEN Replace(binary, PlaceholderToken, version_hash)
                   ELSE binary,
        !.typeshed = IF Truthy(version_hash) /\ Truthy(c.typeshed)
                     THEN Replace(c.typeshed, PlaceholderToken, version_hash)
                     ELSE c.typeshed]

ResolveVersionedPaths(i) ==
  /\ pc[i] = "resolve"
  /\ conf' = [conf EXCEPT ![i] = ResolvedFields(conf[i])]
  /\ pc' = [pc EXCEPT ![i] = "defaults"]
  /\ UNCHANGED <<args, raised, built>>
  /\ ConstructorFrame

(* "".append(".") on a str raises AttributeError *)
DefaultsRaise(c) ==
  ~NonEmpty(c.source_directories) /\ c.source_directories.isstr

DefaultBinary_FileFirst(binary) ==
  IF Truthy(binary) THEN binary
  ELSE IF Truthy(environ.PYRE_BINARY) THEN environ.PYRE_BINARY
  ELSE fs.which

DefaultBinary(binary) ==
  LET overriding_binary == environ.PYRE_BINARY
      binary1 == IF Truthy(overriding_binary) THEN overriding_binary
                 ELSE binary
  IN IF ~Truthy(binary1) THEN fs.which ELSE binary1

(* if not self.source_directories: self.source_directories.append(".") *)
DefaultSources_Always(source_directories) ==
  [source_directories EXCEPT !.items = Append(@, <<".">>)]

DefaultSources(source_directories) ==
  IF ~NonEmpty(source_directories)
  THEN [source_directories EXCEPT !.items = Append(@, <<".">>)]
  ELSE source_directories

DefaultedFields(c) ==
  LET binary2 == DefaultBinary(c.binary)
      overriding_version_hash == environ.PYRE_VERSION_HASH
  IN [c EXCEPT
        !.source_directories = DefaultSources(c.source_directories),
        !.binary = binary2,
        !.version_hash = IF Truthy(overriding_version_hash)
                         THEN overriding_version_hash ELSE c.version_hash,
        !.number_of_workers = IF c.number_of_workers = 0 THEN DefaultWorkers
                              ELSE c.number_of_workers,
        !.typeshed = IF ~Truthy(c.typeshed) THEN fs.find_typeshed
                     ELSE c.typeshed]

ApplyDefaults(i) ==
  /\ pc[i] = "defaults"
  /\ IF DefaultsRaise(conf[i])
     THEN /\ pc' = [pc EXCEPT ![i] = "raised"]
          /\ raised' = [raised EXCEPT ![i] = "AttributeError"]
          /\ UNCHANGED <<conf, built>>
     ELSE /\ pc' = [pc EXCEPT ![i] = "done"]
          /\ conf' = [conf EXCEPT ![i] = DefaultedFields(conf[i])]
          /\ built' = [built EXCEPT ![i] = DefaultedFields(conf[i])]
          /\ UNCHANGED raised
  /\ UNCHANGED args
  /\ ConstructorFrame

(* ---------------------------------------------------------------------- *)
(* Public operations                                                       *)
(* ---------------------------------------------------------------------- *)
NoReturn ==
  [op |-> "none", self |-> "", outcome |-> "none", value |-> <<>>,
   flag |-> FALSE, fresh |-> FALSE]

Returned(op, i, outcome, value, flag, fresh) ==
  [op |-> op, self |-> i, outcome |-> outcome, value |-> value,
   flag |-> flag, fresh |-> fresh]

(* functools.lru_cache(1): one entry for the whole class, keyed by self *)
Hit(cache, i) == cache # <<>> /\ cache[1].self = i

Entry(i, value) == <<[self |-> i, value |-> value]>>

(* if not self._binary / if not self._typeshed *)
NotValidated_Never(field) == FALSE

NotValidated(field) == ~Truthy(field)

(* get_binary() on the object with fields c: outcome, value, cache after *)
GetBinaryCall(i, c, cache) ==
  IF Hit(cache, i)
  THEN [outcome |-> "ok", value |-> cache[1].value, cache |-> cache,
        fresh |-> FALSE]
  ELSE IF NotValidated(c.binary)
  THEN [outcome |-> "InvalidConfiguration", value |-> <<>>, cache |-> cache,
        fresh |-> TRUE]
  ELSE [outcome |-> "ok", value |-> <<c.binary>>,
        cache |-> Entry(i, <<c.binary>>), fresh |-> TRUE]

SearchPathOf_AlwaysAppend(c) == c.search_directories \o <<c.typeshed>>

SearchPathOf(c) ==
  IF Contains(c.search_directories, c.typeshed)
  THEN c.search_directories
  ELSE c.search_directories \o <<c.typeshed>>

GetSearchPathCall(i, c, cache) ==
  IF Hit(cache, i)
  THEN [outcome |-> "ok", value |-> cache[1].value, cache |-> cache,
        fresh |-> FALSE]
  ELSE IF NotValidated(c.typeshed)
  THEN [outcome |-> "InvalidConfiguration", value |-> <<>>, cache |-> cache,
        fresh |-> TRUE]
  ELSE [outcome |-> "ok", value |-> SearchPathOf(c),
        cache |-> Entry(i, SearchPathOf(c)), fresh |-> TRUE]

FirstOf(first, i, call) ==
  IF call.outcome = "ok" /\ first[i] = <<>>
  THEN [first EXCEPT ![i] = <<call.value>>] ELSE first

PublicFrame == UNCHANGED <<world, tool, args, pc, raised, built>>

GetBinary(i) ==
  /\ Idle /\ pc[i] = "done"
  /\ LET call == GetBinaryCall(i, conf[i], binary_cache)
     IN /\ binary_cache' = call.cache
        /\ ret' = Returned("get_binary", i, call.outcome, call.value, FALSE,
                           call.fresh)
        /\ first_binary' = FirstOf(first_binary, i, call)
  /\ UNCHANGED <<conf, search_path_cache, validated, first_search_path>>
  /\ PublicFrame

GetSearchPath(i) ==
  /\ Idle /\ pc[i] = "done"
  /\ LET call == GetSearchPathCall(i, conf[i], search_path_cache)
     IN /\ search_path_cache' = call.cache
        /\ ret' = Returned("get_search_path", i, call.outcome, call.value,
                           FALSE, call.fresh)
        /\ first_search_path' = FirstOf(first_search_path, i, call)
  /\ UNCHANGED <<conf, binary_cache, validated, first_binary>>
  /\ PublicFrame

GetVersionHash(i) ==
  /\ Idle /\ pc[i] = "done"
  /\ ret' = Returned("get_version_hash", i, "ok", <<conf[i].version_hash>>,
                     FALSE, TRUE)
  /\ UNCHANGED <<conf, binary_cache, search_path_cache, validated,
                 first_binary, first_search_path>>
  /\ PublicFrame

DisabledOf(c) == IF c.disabled # <<>> THEN c.disabled[1] ELSE class_disabled

Disabled(i) ==
  /\ Idle /\ pc[i] = "done"
  /\ ret' = Returned("disabled", i, "ok", <<>>, DisabledOf(conf[i]), TRUE)
  /\ UNCHANGED <<conf, binary_cache, search_path_cache, validated,
                 first_binary, first_search_path>>
  /\ PublicFrame

IsListOfStrings(list) == Len(list.items) = 0 \/ ~list.isstr

(* validate(): the outcome, the fields and the two caches it leaves, and  *)
(* the results of the accessor calls it made (<<>> when it made none).    *)
Outcome(outcome, c, bcache, scache, bcall, scall) ==
  [outcome |-> outcome, conf |-> c, binary_cache |-> bcache,
   search_path_cache |-> scache, binary_call |-> bcall,
   search_path_call |-> scall]

(* the fields once validate() has looked for the stdlib child *)
Located_Always(c) == [c EXCEPT !.typeshed = Join(c.typeshed, StdlibSlash)]

Located(c) ==
  IF Stdlib \in ListDir(c.typeshed)
  THEN [c EXCEPT !.typeshed = Join(c.typeshed, StdlibSlash)]
  ELSE c

(* the loop over os.listdir(self._typeshed): some entry's first character
   is not a digit *)
HasUnversionedEntry_All(directory) ==
  \A name \in ListDir(directory) : Head(name) \notin Digits

HasUnversionedEntry(directory) ==
  \E name \in ListDir(directory) : Head(name) \notin Digits

ValidateTypeshed(i, c, bcache, bcall) ==
  IF ~IsDir(c.typeshed)
  THEN Outcome("OSError", c, bcache, search_path_cache, bcall, <<>>)
  ELSE
  LET located == Located(c)
  IN IF ~IsDir(located.typeshed)
     THEN Outcome("OSError", located, bcache, search_path_cache, bcall, <<>>)
     ELSE IF HasUnversionedEntry(located.typeshed)
     THEN Outcome("EnvironmentException", located, bcache, search_path_cache,
                  bcall, <<>>)
     ELSE LET scall == GetSearchPathCall(i, located, search_path_cache)
          IN IF \E k \in 1..Len(scall.value) : ~IsDir(scall.value[k])
             THEN Outcome("EnvironmentException", located, bcache,
                          scall.cache, bcall, <<scall>>)
             ELSE Outcome("ok", located, bcache, scall.cache, bcall,
                          <<scall>>)

ValidateCall(i, c) ==
  IF ~IsListOfStrings(c.source_directories) \/ ~IsListOfStrings(c.targets)
  THEN Outcome("EnvironmentException", c, binary_cache, search_path_cache,
               <<>>, <<>>)
  ELSE IF ~IsListOfStrings(c.autogenerated)
  THEN Outcome("EnvironmentException", c, binary_cache, search_path_cache,
               <<>>, <<>>)
  ELSE IF ~Truthy(c.binary)
  THEN Outcome("EnvironmentException", c, binary_cache, search_path_cache,
               <<>>, <<>>)
  ELSE
  LET bcall == GetBinaryCall(i, c, binary_cache)
  IN IF ~Exists(bcall.value[1])
     THEN Outcome("EnvironmentException", c, bcall.cache, search_path_cache,
                  <<bcall>>, <<>>)
     ELSE IF c.number_of_workers < 1
     THEN Outcome("EnvironmentException", c, bcall.cache, search_path_cache,
                  <<bcall>>, <<>>)
     ELSE IF ~Truthy(c.typeshed)
     THEN Outcome("EnvironmentException", c, bcall.cache, search_path_cache,
                  <<bcall>>, <<>>)
     ELSE ValidateTypeshed(i, c, bcall.cache, <<bcall>>)

Validate(i) ==
  /\ Idle /\ pc[i] = "done"
  /\ LET v == ValidateCall(i, conf[i])
     IN /\ conf' = [conf EXCEPT ![i] = v.conf]
        /\ binary_cache' = v.binary_cache
        /\ search_path_cache' = v.search_path_cache
        /\ ret' = Returned("validate", i, v.outcome, <<>>, FALSE, TRUE)
        /\ validated' = [validated EXCEPT ![i] = @ \/ v.outcome = "ok"]
        /\ first_binary' = IF v.binary_call = <<>> THEN first_binary
                           ELSE FirstOf(first_binary, i, v.binary_call[1])
        /\ first_search_path' =
             IF v.search_path_call = <<>> THEN first_search_path
             ELSE FirstOf(first_search_path, i, v.search_path_call[1])
  /\ PublicFrame

(* ---------------------------------------------------------------------- *)
(* Inputs: files, environment, filesystem and callers                      *)
(* ---------------------------------------------------------------------- *)
OVERRIDE_FILE == "f"

OverrideInDirectory == "d/.pyre_configuration.local"

CfgPaths ==
  {OVERRIDE_FILE, OverrideInDirectory, CONFIGURATION_FILE_LOCAL,
   CONFIGURATION_FILE}

(* The disks whose three candidate files are drawn from the three sets.   *)
(* The families of files below take a tag ("1" local override, "2"        *)
(* .local, "3" global) that marks the values of a file, so that a field   *)
(* shows which file it came from.                                         *)
Disks(overrides, locals, globals) ==
  {[p \in CfgPaths |->
      CASE p = OVERRIDE_FILE -> x
        [] p = OverrideInDirectory -> x
        [] p = CONFIGURATION_FILE_LOCAL -> y
        [] OTHER -> z] : x \in overrides, y \in locals, z \in globals}

Unreadable == {Missing, Malformed}

PlainEnviron ==
  [PYTHONPATH |-> <<>>, PYRE_BINARY |-> None, PYRE_VERSION_HASH |-> None]

DirA == <<"a">>

NotADir == <<"n">>

TypeshedDir == <<"t">>

FlatListing ==
  (DirA :> {}) @@ (TypeshedDir :> {<<"2">>, <<"3">>})

StdlibListing ==
  (DirA :> {}) @@ (TypeshedDir :> {Stdlib})
  @@ (Norm(Join(TypeshedDir, StdlibSlash)) :> {<<"2">>, <<"3">>})

ScratchListing ==
  (DirA :> {}) @@ (TypeshedDir :> {<<"3">>, <<"x">>})

NestedListing ==
  (DirA :> {}) @@ (TypeshedDir :> {Stdlib})
  @@ (Norm(Join(TypeshedDir, StdlibSlash)) :> {<<"3">>, Stdlib})

DeepListing ==
  (DirA :> {}) @@ (TypeshedDir :> {Stdlib})
  @@ (Norm(Join(TypeshedDir, StdlibSlash)) :> {<<"3">>, Stdlib})
  @@ (Norm(Join(Join(TypeshedDir, StdlibSlash), StdlibSlash)) :> {<<"3">>})

ExistingFiles == {<<"b", "1">>, <<"b", "2">>, <<"e">>, <<"w">>}

FsWith(listing, which, found) ==
  [listing |-> listing, files |-> ExistingFiles, which |-> which,
   find_typeshed |-> found]

PlainFs == FsWith(FlatListing, <<"w">>, TypeshedDir)

WithOverride == [NoArgs EXCEPT !.local_configuration = OVERRIDE_FILE]

InDirectory == [NoArgs EXCEPT !.original_directory = "d"]

OneObject(argset) == [i \in Instances |-> IF i = "c1" THEN argset ELSE {}]

Scenario(d, e, f, c) == [disk |-> d, environ |-> e, fs |-> f, callers |-> c]

SourcesFiles(tag) ==
  Unreadable \cup
  {[EmptyObject EXCEPT !.source_directories = sd, !.link_trees = lt] :
     sd \in {EmptyList, List(<< <<"s", tag>> >>)},
     lt \in {EmptyList, List(<< <<"k", tag>> >>)}}

ScSources ==
  {Scenario(d, PlainEnviron, PlainFs, OneObject({NoArgs, WithOverride})) :
     d \in Disks(SourcesFiles("1"), SourcesFiles("2"), SourcesFiles("3"))}

TargetsFiles(tag) ==
  Unreadable \cup
  {[EmptyObject EXCEPT !.targets = tg, !.autogenerated = ag] :
     tg \in {EmptyList, List(<< <<"/", "/", tag>> >>)},
     ag \in {EmptyList, List(<< <<"g", tag>> >>)}}

ScTargets ==
  {Scenario(d, PlainEnviron, PlainFs, OneObject({NoArgs, InDirectory})) :
     d \in Disks(TargetsFiles("1"), TargetsFiles("2"), TargetsFiles("3"))}

WorkersOf(tag) == CASE tag = "1" -> 1 [] tag = "2" -> 2 [] OTHER -> -3

ScalarFiles(tag) ==
  Unreadable \cup
  {[EmptyObject EXCEPT !.logger = lg, !.workers = w] :
     lg \in {None, <<"l", tag>>}, w \in {0, WorkersOf(tag)}}

ScScalars ==
  {Scenario(d, PlainEnviron, PlainFs, OneObject({NoArgs, WithOverride})) :
     d \in Disks(ScalarFiles("1"), ScalarFiles("2"), ScalarFiles("3"))}

DisabledFiles(tag) ==
  Unreadable \cup
  {[EmptyObject EXCEPT !.disabled = v] :
     v \in {"absent", "true", "false", "null"}}

ScDisabled ==
  {Scenario(d, PlainEnviron, PlainFs, OneObject({NoArgs, WithOverride})) :
     d \in Disks(DisabledFiles("1"), DisabledFiles("2"), DisabledFiles("3"))}

BinaryFiles(tag) ==
  {Missing} \cup
  {[EmptyObject EXCEPT !.binary = b, !.version = v] :
     b \in {None, <<"b", tag>>, <<"%", "V", "b", "%", "V">>},
     v \in {None, <<tag>>}}

ScBinary ==
  {Scenario(d, [PlainEnviron EXCEPT !.PYRE_BINARY = eb,
                                    !.PYRE_VERSION_HASH = ev],
            FsWith(FlatListing, w, TypeshedDir),
            OneObject({NoArgs, WithOverride})) :
     d \in Disks(BinaryFiles("1"), BinaryFiles("2"), BinaryFiles("3")),
     eb \in {None, <<"e">>},
     ev \in {None, <<"9">>}, w \in {None, <<"w">>}}

TypeshedFiles(tag) ==
  {Missing} \cup
  {[EmptyObject EXCEPT !.typeshed = t, !.version = v] :
     t \in {None, <<"t", tag>>, <<"t", "%", "V">>},
     v \in {None, <<tag>>}}

WithTypeshed == [WithOverride EXCEPT !.typeshed = TypeshedDir]

ScTypeshed ==
  {Scenario(d, [PlainEnviron EXCEPT !.PYRE_VERSION_HASH = ev],
            FsWith(FlatListing, <<"w">>, found),
            OneObject({NoArgs, WithOverride, WithTypeshed})) :
     d \in Disks(TypeshedFiles("1"), TypeshedFiles("2"), TypeshedFiles("3")),
     ev \in {None, <<"9">>},
     found \in {None, TypeshedDir}}

SearchFiles(tag) ==
  {Missing} \cup
  {[EmptyObject EXCEPT !.search_path = sp, !.typeshed = t,
                       !.binary = <<"b", "1">>] :
     sp \in {<<>>, <<DirA>>, <<TypeshedDir>>},
     t \in {None, TypeshedDir}}

WithSearchPath ==
  [WithOverride EXCEPT !.search_path = <<NotADir, TypeshedDir>>]

ScSearch ==
  {Scenario(d, PlainEnviron, FsWith(listing, <<"w">>, None),
            OneObject({NoArgs, WithOverride, WithSearchPath})) :
     d \in Disks(SearchFiles("1"), SearchFiles("2"), SearchFiles("3")),
     listing \in {FlatListing, StdlibListing, ScratchListing, NestedListing,
                  DeepListing}}

PathChars == {"a", "n", ":"}

PythonPaths == UNION {[1..n -> PathChars] : n \in 0..MaxPythonPath}

PythonPathFiles(tag) ==
  IF tag = "3"
  THEN {Missing, [EmptyObject EXCEPT !.search_path = <<DirA, NotADir>>]}
  ELSE {Missing}

Preserving ==
  {[NoArgs EXCEPT !.preserve_pythonpath = keep, !.search_path = sp] :
     keep \in BOOLEAN, sp \in {<<>>, <<TypeshedDir>>}}

ScPythonPath ==
  {Scenario(d, [PlainEnviron EXCEPT !.PYTHONPATH = pp], PlainFs,
            OneObject(Preserving)) :
     d \in Disks(PythonPathFiles("1"), PythonPathFiles("2"), PythonPathFiles("3")),
     pp \in PythonPaths}

(* JSON strings where the lists are expected *)
TypesFiles(tag) ==
  IF tag = "3"
  THEN {[EmptyObject EXCEPT !.source_directories = sd, !.link_trees = lt,
                            !.targets = tg, !.autogenerated = ag] :
          sd \in {EmptyList, Str(<<"x">>)}, lt \in {EmptyList, Str(<<>>)},
          tg \in {EmptyList, Str(<<"y">>)}, ag \in {EmptyList, Str(<<"z">>)}}
  ELSE {Missing, EmptyObject}

ScTypes ==
  {Scenario(d, [PlainEnviron EXCEPT !.PYRE_BINARY = <<"e">>], PlainFs,
            OneObject({NoArgs})) :
     d \in Disks(TypesFiles("1"), TypesFiles("2"), TypesFiles("3"))}

(* Two Configuration objects in one process *)
TwoFiles(tag) ==
  IF tag = "1"
  THEN {Missing,
        [EmptyObject EXCEPT !.disabled = "false", !.search_path = <<DirA>>,
                            !.binary = <<"b", "1">>]}
  ELSE IF tag = "2" THEN {Missing}
  ELSE {[EmptyObject EXCEPT !.typeshed = t, !.binary = b] :
          t \in {None, TypeshedDir}, b \in {None, <<"b", "2">>}}

TwoObjects ==
  [i \in Instances |-> IF i = "c1" THEN {WithOverride} ELSE {NoArgs}]

ScTwo ==
  {Scenario(d, PlainEnviron, FsWith(listing, None, None), TwoObjects) :
     d \in Disks(TwoFiles("1"), TwoFiles("2"), TwoFiles("3")),
     listing \in {FlatListing, StdlibListing}}

(* ---------------------------------------------------------------------- *)
(* tools/upgrade: GlobalVersionUpdate                                       *)
(* ---------------------------------------------------------------------- *)
(* the directories the command may be pointed at *)
MaxPaths == 2

(* the path Configuration.find_project_configuration() returns *)
GlobalPath == <<".pyre_configuration">>

(* path / ".pyre_configuration.local" *)
LocalPath(path) == path \o <<"/", ".pyre_configuration.local">>

MockRepository ==
  <<"m", "o", "c", "k", "_", "r", "e", "p", "o", "s", "i", "t", "o", "r", "y">>

(* token in str(path) *)
HasSubstring(s, token) ==
  \E k \in 1..(Len(s) - Len(token) + 1) :
    SubSeq(s, k, k + Len(token) - 1) = token

(* a JSON object: version is <<>> when the key is absent, else <<value>> *)
Json(version, differential) ==
  [kind |-> "object", version |-> version, differential |-> differential]

NoFile == [kind |-> "missing", version |-> <<>>, differential |-> "absent"]

NotJson == [kind |-> "malformed", version |-> <<>>, differential |-> "absent"]

(* "version" in contents *)
HasVersion_Truthy(contents) ==
  contents.version # <<>> /\ contents.version[1] # ""

HasVersion(contents) == contents.version # <<>>

(* contents.get("differential") *)
Differential(contents) == contents.differential = "true"

NotRunning == [at |-> "none", old_version |-> "", configuration_paths |-> <<>>]

(* the configuration_paths of run(): the given paths, else the local
   configurations that gather_local_configurations() found *)
ConfigurationPaths ==
  IF command.paths # <<>>
  THEN [k \in 1..Len(command.paths) |-> LocalPath(command.paths[k])]
  ELSE LET local == SelectSeq(gathered,
                              LAMBDA configuration : configuration.is_local)
       IN [k \in 1..Len(local) |-> local[k].path]

ToolFrame == UNCHANGED <<world, client, original_files, command, gathered>>

(* run(): load the global configuration, stop when it has no version,
   else rewrite it with the new hash and list the local configurations *)
UpdateGlobal ==
  /\ run.at = "start"
  /\ LET configuration == repository_files[GlobalPath]
     IN IF configuration.kind # "object"
        THEN /\ run' = [run EXCEPT !.at = "raised"]
             /\ UNCHANGED <<repository_files, written>>
        ELSE IF ~HasVersion(configuration)
        THEN /\ run' = [run EXCEPT !.at = "returned"]
             /\ UNCHANGED <<repository_files, written>>
        ELSE /\ repository_files' =
                  [repository_files EXCEPT
                     ![GlobalPath].version = <<command.hash>>]
             /\ written' = Append(written, GlobalPath)
             /\ run' = [at |-> "locals",
                        old_version |-> configuration.version[1],
                        configuration_paths |-> ConfigurationPaths]
  /\ UNCHANGED submitted
  /\ ToolFrame

(* one iteration of the loop over configuration_paths *)
UpdateLocal ==
  /\ run.at = "locals"
  /\ run.configuration_paths # <<>>
  /\ LET configuration_path == Head(run.configuration_paths)
         contents == repository_files[configuration_path]
         continue == [run EXCEPT !.configuration_paths = Tail(@)]
     IN IF HasSubstring(configuration_path, MockRepository)
        THEN run' = continue /\ UNCHANGED <<repository_files, written>>
        ELSE IF contents.kind # "object"
        THEN /\ run' = [run EXCEPT !.at = "raised"]
             /\ UNCHANGED <<repository_files, written>>
        ELSE IF HasVersion(contents)
        THEN run' = continue /\ UNCHANGED <<repository_files, written>>
        ELSE IF Differential(contents)
        THEN run' = continue /\ UNCHANGED <<repository_files, written>>
        ELSE /\ repository_files' =
                  [repository_files EXCEPT
                     ![configuration_path].version = <<run.old_version>>]
             /\ written' = Append(written, configuration_path)
             /\ run' = continue
  /\ UNCHANGED submitted
  /\ ToolFrame

(* self._repository.submit_changes(...), once the loop is over *)
SubmitChanges ==
  /\ run.at = "locals"
  /\ run.configuration_paths = <<>>
  /\ submitted' = Append(submitted,
                         [commit |-> TRUE, submit |-> command.submit,
                          ignore_failures |-> TRUE,
                          after |-> Len(written)])
  /\ run' = [run EXCEPT !.at = "returned"]
  /\ UNCHANGED <<repository_files, written>>
  /\ ToolFrame

(* ---------------------------------------------------------------------- *)
(* Inputs of the upgrade tool                                               *)
(* ---------------------------------------------------------------------- *)
DirP == <<"p">>

DirQ == <<"q">>

MockDirectory == <<"x", "/">> \o MockRepository \o <<"2">>

Directories == {DirP, DirQ, MockDirectory}

RepositoryPaths == {GlobalPath} \cup {LocalPath(d) : d \in Directories}

NoCommand == [hash |-> "", paths |-> <<>>, submit |-> FALSE]

(* update-global-version HASH [--paths ...] [--submit] *)
Commands ==
  {[hash |-> "h", paths |-> paths, submit |-> submit] :
     paths \in UNION {[1..n -> Directories] : n \in 0..MaxPaths},
     submit \in BOOLEAN}

Found ==
  {[path |-> LocalPath(d), is_local |-> TRUE] : d \in Directories}
  \cup {[path |-> GlobalPath, is_local |-> FALSE]}

Gathered(cmd) ==
  IF cmd.paths # <<>> THEN {<<>>}
  ELSE UNION {[1..n -> Found] : n \in 0..MaxPaths}

Repositories ==
  {(GlobalPath :> g) @@ (LocalPath(DirP) :> p) @@ (LocalPath(DirQ) :> q)
   @@ (LocalPath(MockDirectory) :> m) :
     g \in {NotJson, Json(<<>>, "absent"), Json(<<"o">>, "absent"),
            Json(<<"">>, "absent")},
     p \in {NoFile, NotJson, Json(<<>>, "absent"), Json(<<>>, "false"),
            Json(<<>>, "true"), Json(<<"">>, "absent")},
     q \in {NoFile, Json(<<>>, "absent"), Json(<<"l">>, "true")},
     m \in {NoFile, Json(<<>>, "absent")}}

NoUpgrade ==
  /\ repository_files = [path \in RepositoryPaths |-> NoFile]
  /\ original_files = [path \in RepositoryPaths |-> NoFile]
  /\ command = NoCommand
  /\ gathered = <<>>
  /\ run = NotRunning
  /\ written = <<>>
  /\ submitted = <<>>

InitWith(sc) ==
  /\ disk = sc.disk
  /\ environ = sc.environ
  /\ fs = sc.fs
  /\ callers = sc.callers
  /\ class_disabled = FALSE
  /\ args = [i \in Instances |-> NoArgs]
  /\ conf = [i \in Instances |-> Fresh]
  /\ pc = [i \in Instances |-> "none"]
  /\ raised = [i \in Instances |-> ""]
  /\ binary_cache = <<>>
  /\ search_path_cache = <<>>
  /\ ret = NoReturn
  /\ built = [i \in Instances |-> Fresh]
  /\ validated = [i \in Instances |-> FALSE]
  /\ first_binary = [i \in Instances |-> <<>>]
  /\ first_search_path = [i \in Instances |-> <<>>]

Scenarios ==
  ScSources \cup ScTargets \cup ScScalars \cup ScDisabled \cup ScBinary
  \cup ScTypeshed \cup ScSearch \cup ScPythonPath \cup ScTypes \cup ScTwo

(* a process that runs the upgrade tool and builds no client Configuration *)
NoClient ==
  Scenario([path \in CfgPaths |-> Missing], PlainEnviron, PlainFs,
           [i \in Instances |-> {}])

InitUpgrade ==
  /\ InitWith(NoClient)
  /\ repository_files \in Repositories
  /\ original_files = repository_files
  /\ command \in Commands
  /\ gathered \in Gathered(command)
  /\ run = [NotRunning EXCEPT !.at = "start"]
  /\ written = <<>>
  /\ submitted = <<>>

Init ==
  \/ \E sc \in Scenarios : InitWith(sc) /\ NoUpgrade
  \/ InitUpgrade

Next ==
  \/ \E i \in Instances :
       \/ Construct(i)
       \/ ReadOverride(i)
       \/ ReadLocal(i)
       \/ ReadGlobal(i)
       \/ ResolveVersionedPaths(i)
       \/ ApplyDefaults(i)
       \/ Validate(i)
       \/ GetVersionHash(i)
       \/ GetBinary(i)
       \/ GetSearchPath(i)
       \/ Disabled(i)
  \/ UpdateGlobal
  \/ UpdateLocal
  \/ SubmitChanges

Spec == Init /\ [][Next]_vars

(* ---------------------------------------------------------------------- *)
(* What the files say, read off the inputs                                 *)
(* ---------------------------------------------------------------------- *)
ReadStages == {"read_override", "read_local", "read_global"}

StagePath(i) ==
  CASE pc[i] = "read_override" -> OverridePath(args[i])
    [] pc[i] = "read_local" -> CONFIGURATION_FILE_LOCAL
    [] pc[i] = "read_global" -> CONFIGURATION_FILE
    [] OTHER -> ""

StageAfter(stage) ==
  CASE stage = "read_override" -> "read_local"
    [] stage = "read_local" -> "read_global"
    [] OTHER -> "resolve"

(* The candidate files of object i in read order, those that parse *)
FilesRead(i) ==
  LET override == OverridePath(args[i])
      candidates == (IF override = "" THEN <<>> ELSE <<FileAt(override)>>)
                    \o <<FileAt(CONFIGURATION_FILE_LOCAL),
                         FileAt(CONFIGURATION_FILE)>>
  IN SelectSeq(candidates, LAMBDA f : f.kind = "object")

Fields ==
  {"source_directories", "targets", "logger", "autogenerated",
   "number_of_workers", "binary", "version_hash", "typeshed"}

FieldOf(c, k) ==
  CASE k = "source_directories" -> c.source_directories
    [] k = "targets" -> c.targets
    [] k = "logger" -> c.logger
    [] k = "autogenerated" -> c.autogenerated
    [] k = "number_of_workers" -> c.number_of_workers
    [] k = "binary" -> c.binary
    [] k = "version_hash" -> c.version_hash
    [] OTHER -> c.typeshed

KeyOf(f, k) ==
  CASE k = "source_directories" ->
         IF NonEmpty(f.source_directories) THEN f.source_directories
         ELSE f.link_trees
    [] k = "targets" -> f.targets
    [] k = "logger" -> f.logger
    [] k = "autogenerated" -> f.autogenerated
    [] k = "number_of_workers" -> f.workers
    [] k = "binary" -> f.binary
    [] k = "version_hash" -> f.version
    [] OTHER -> f.typeshed

IsSet(k, v) ==
  CASE k \in {"source_directories", "targets", "autogenerated"} -> NonEmpty(v)
    [] k = "number_of_workers" -> v # 0
    [] OTHER -> Truthy(v)

Min(S) == CHOOSE n \in S : \A m \in S : n <= m

(* <<v>> for the value v of the first file that sets field k, else <<>> *)
HighestSetting(k, files) ==
  LET setters == {n \in 1..Len(files) : IsSet(k, KeyOf(files[n], k))}
  IN IF setters = {} THEN <<>> ELSE <<KeyOf(files[Min(setters)], k)>>

Count(seq, x) == Cardinality({n \in 1..Len(seq) : seq[n] = x})

(* ---------------------------------------------------------------------- *)
(* C1                                                                      *)
(* ---------------------------------------------------------------------- *)
(* C1 as stated: after the three reads every first-wins field holds the    *)
(* value of the highest-priority file that sets it.                        *)
C1_HighestFileWins ==
  \A i \in Instances :
    pc[i] = "resolve" =>
      \A k \in Fields :
        LET h == HighestSetting(k, FilesRead(i))
        IN h # <<>> => FieldOf(conf[i], k) = h[1]

C1_AfterReads ==
  \A i \in Instances :
    pc[i] = "resolve" =>
      \A k \in Fields :
        LET h == HighestSetting(k, FilesRead(i))
        IN IF k = "typeshed" /\ Truthy(args[i].typeshed)
           THEN conf[i].typeshed = args[i].typeshed
           ELSE h # <<>> => FieldOf(conf[i], k) = h[1]

C1_Kept ==
  \A i \in Instances :
    pc[i] \in ReadStages =>
      \A k \in Fields :
        IsSet(k, FieldOf(conf[i], k)) =>
          FieldOf(conf'[i], k) = FieldOf(conf[i], k)

(* C1, amended: a field that is non-empty is never changed by a later      *)
(* _read, and after the three reads each first-wins field holds the value  *)
(* of the highest-priority file that sets it; typeshed holds the typeshed  *)
(* constructor argument instead whenever that argument is non-empty.       *)
C1_FirstWins == [](C1_AfterReads) /\ [][C1_Kept]_vars

C1_Witness ==
  \E i \in Instances :
    /\ pc[i] = "resolve"
    /\ ~Truthy(args[i].typeshed)
    /\ Len(FilesRead(i)) = 3
    /\ \A n \in 1..3 : Truthy(FilesRead(i)[n].typeshed)
    /\ FilesRead(i)[1].typeshed # FilesRead(i)[3].typeshed
    /\ conf[i].typeshed = FilesRead(i)[1].typeshed

(* ---------------------------------------------------------------------- *)
(* C2                                                                      *)
(* ---------------------------------------------------------------------- *)
(* C2: when construction has finished with version hash h, a binary or     *)
(* typeshed path taken from the files has every %V replaced by h.          *)
C2_PlaceholderReplaced ==
  \A i \in Instances :
    pc[i] = "done" /\ Truthy(built[i].version_hash) =>
      LET h == built[i].version_hash
          b == HighestSetting("binary", FilesRead(i))
          t == HighestSetting("typeshed", FilesRead(i))
      IN /\ (b # <<>> /\ ~Truthy(environ.PYRE_BINARY)) =>
              built[i].binary = Replace(b[1], PlaceholderToken, h)
         /\ (t # <<>> /\ ~Truthy(args[i].typeshed)) =>
              built[i].typeshed = Replace(t[1], PlaceholderToken, h)

(* ---------------------------------------------------------------------- *)
(* C3                                                                      *)
(* ---------------------------------------------------------------------- *)
(* C3 as stated: an accessor called before validate() has succeeded on the *)
(* object raises InvalidConfiguration.                                     *)
C3_RaisesBeforeValidate ==
  (ret.op \in {"get_binary", "get_search_path"} /\ ~validated[ret.self])
    => ret.outcome = "InvalidConfiguration"

(* C3, amended: get_binary() raises InvalidConfiguration exactly when the  *)
(* binary is unset and get_search_path() exactly when the typeshed is      *)
(* unset, whether or not validate() has run; neither raises after a        *)
(* validate() that succeeded.                                              *)
C3_RaisesWhenUnset ==
  /\ ret.op = "get_binary" =>
       /\ ret.outcome = "InvalidConfiguration"
            <=> ~Truthy(conf[ret.self].binary)
       /\ validated[ret.self] => ret.outcome = "ok"
  /\ ret.op = "get_search_path" =>
       /\ ret.outcome = "InvalidConfiguration"
            <=> ~Truthy(conf[ret.self].typeshed)
       /\ validated[ret.self] => ret.outcome = "ok"

C3_Witness ==
  /\ ret.op = "get_binary"
  /\ ret.outcome = "ok"
  /\ ~validated[ret.self]
  /\ Truthy(conf[ret.self].typeshed)

(* ---------------------------------------------------------------------- *)
(* C4                                                                      *)
(* ---------------------------------------------------------------------- *)
(* C4 as stated: after __init__ no public operation changes a field.       *)
C4_ReadOnly ==
  \A i \in Instances : pc[i] = "done" => conf[i] = built[i]

C4_Step ==
  \A i \in Instances :
    pc[i] = "done" =>
      \/ conf'[i] = conf[i]
      \/ /\ ret'.op = "validate" /\ ret'.self = i
         /\ IsDir(conf[i].typeshed)
         /\ Stdlib \in ListDir(conf[i].typeshed)
         /\ conf'[i] = [conf[i] EXCEPT
                          !.typeshed = Join(conf[i].typeshed, StdlibSlash)]

(* C4, amended: after __init__ the only public operation that changes a    *)
(* field is validate(), and the only change it makes is to replace the     *)
(* typeshed by its stdlib/ child when the typeshed directory has one.      *)
C4_OnlyValidateRelocates == [][C4_Step]_vars

C4_Witness ==
  \E i \in Instances :
    /\ pc[i] = "done"
    /\ ret.op = "validate" /\ ret.self = i
    /\ conf[i].typeshed = Join(built[i].typeshed, StdlibSlash)
    /\ conf[i].typeshed # built[i].typeshed

(* ---------------------------------------------------------------------- *)
(* C5                                                                      *)
(* ---------------------------------------------------------------------- *)
(* C5: every successful get_binary() / get_search_path() of an object      *)
(* returns what the first successful call on that object returned.         *)
C5_SameAsFirstCall ==
  /\ (ret.op = "get_binary" /\ ret.outcome = "ok") =>
       first_binary[ret.self] = <<ret.value>>
  /\ (ret.op = "get_search_path" /\ ret.outcome = "ok") =>
       first_search_path[ret.self] = <<ret.value>>

(* ---------------------------------------------------------------------- *)
(* C6                                                                      *)
(* ---------------------------------------------------------------------- *)
(* The binary of the highest-priority file that sets it, after the %V      *)
(* substitution with the version hash the files give                       *)
FileBinary(i) ==
  LET b == HighestSetting("binary", FilesRead(i))
      v == HighestSetting("version_hash", FilesRead(i))
  IN IF b = <<>> THEN None
     ELSE IF v = <<>> THEN b[1]
     ELSE Replace(b[1], PlaceholderToken, v[1])

(* C6: the constructed binary is PYRE_BINARY when that is set, else the    *)
(* substituted binary of the highest-priority file that sets one, else     *)
(* what the PATH search finds (unset when it finds nothing).               *)
C6_BinaryPriority ==
  \A i \in Instances :
    pc[i] = "done" =>
      built[i].binary =
        IF Truthy(environ.PYRE_BINARY) THEN environ.PYRE_BINARY
        ELSE IF Truthy(FileBinary(i)) THEN FileBinary(i)
        ELSE fs.which

C6_Witness ==
  \E i \in Instances :
    /\ pc[i] = "done"
    /\ Truthy(environ.PYRE_BINARY)
    /\ Truthy(FileBinary(i))
    /\ Truthy(fs.which)
    /\ built[i].binary = environ.PYRE_BINARY
    /\ built[i].binary # FileBinary(i)

(* ---------------------------------------------------------------------- *)
(* C7                                                                      *)
(* ---------------------------------------------------------------------- *)
RECURSIVE Flatten(_)
Flatten(seqs) ==
  IF seqs = <<>> THEN <<>> ELSE Head(seqs) \o Flatten(Tail(seqs))

PythonPathDirectories(i) ==
  IF args[i].preserve_pythonpath
  THEN SelectSeq(Split(environ.PYTHONPATH, ":"), LAMBDA p : IsDir(p))
  ELSE <<>>

ExpectedSearchDirectories(i) ==
  PythonPathDirectories(i) \o args[i].search_path
  \o Flatten([n \in 1..Len(FilesRead(i)) |-> FilesRead(i)[n].search_path])

IsPrefix(s, t) == Len(s) <= Len(t) /\ SubSeq(t, 1, Len(s)) = s

C7_AfterConstruction ==
  \A i \in Instances :
    pc[i] = "done" =>
      conf[i].search_directories = ExpectedSearchDirectories(i)

C7_Grows ==
  \A i \in Instances :
    pc[i] \in ReadStages =>
      IsPrefix(conf[i].search_directories, conf'[i].search_directories)

(* C7: the search directories after construction are the PYTHONPATH        *)
(* entries that are directories (when preserve_pythonpath), then the       *)
(* search_path argument, then the search_path of every file read, in read  *)
(* order; a read only appends.                                             *)
C7_SearchDirectories == [](C7_AfterConstruction) /\ [][C7_Grows]_vars

C7_Witness ==
  \E i \in Instances :
    /\ pc[i] = "done"
    /\ args[i].preserve_pythonpath
    /\ Len(Split(environ.PYTHONPATH, ":")) = 2
    /\ Len(PythonPathDirectories(i)) = 1
    /\ args[i].search_path # <<>>
    /\ \E n \in 1..Len(FilesRead(i)) : FilesRead(i)[n].search_path # <<>>
    /\ Len(conf[i].search_directories) = 4

(* ---------------------------------------------------------------------- *)
(* C8                                                                      *)
(* ---------------------------------------------------------------------- *)
HasDisabledKey(i) ==
  \E n \in 1..Len(FilesRead(i)) : FilesRead(i)[n].disabled # "absent"

C8_AfterConstruction ==
  /\ \A i \in Instances :
       pc[i] = "done" => (DisabledOf(conf[i]) <=> HasDisabledKey(i))
  /\ ret.op = "disabled" => (ret.flag <=> HasDisabledKey(ret.self))

C8_Sticky ==
  \A i \in Instances :
    (pc[i] \in ReadStages /\ DisabledOf(conf[i])) => DisabledOf(conf'[i])

(* C8: disabled() is true after construction exactly when a file that was  *)
(* read has a `disabled` key, whatever its value; a later read never       *)
(* resets it; other Configuration objects have no influence.               *)
C8_Disabled == [](C8_AfterConstruction) /\ [][C8_Sticky]_vars

C8_Witness ==
  /\ ret.op = "disabled" /\ ret.self = "c2" /\ ~ret.flag
  /\ pc["c1"] = "done" /\ DisabledOf(conf["c1"])
  /\ \A n \in 1..Len(FilesRead("c1")) :
       FilesRead("c1")[n].disabled \in {"absent", "false"}

(* ---------------------------------------------------------------------- *)
(* C9                                                                      *)
(* ---------------------------------------------------------------------- *)
AppendedOnce(directories, typeshed) ==
  IF Count(directories, typeshed) > 0 THEN directories
  ELSE Append(directories, typeshed)

(* C9 as stated: get_search_path() returns the search directories followed *)
(* by the typeshed, appended only when no entry equals it, and the         *)
(* typeshed occurs in the result exactly once.                             *)
C9_TypeshedExactlyOnce ==
  (ret.op = "get_search_path" /\ ret.outcome = "ok") =>
    LET c == conf[ret.self]
    IN /\ ret.value = AppendedOnce(c.search_directories, c.typeshed)
       /\ Count(ret.value, c.typeshed) = 1

(* The typeshed and the directories validate() may have moved it from *)
RECURSIVE Ancestors(_)
Ancestors(p) ==
  IF p = <<>> THEN {} ELSE {p} \cup Ancestors(SubSeq(p, 1, Len(p) - 1))

(* validate() calls, each finding a stdlib child, lead from `from` to `to` *)
RECURSIVE MovedTo(_, _)
MovedTo(from, to) ==
  \/ from = to
  \/ Len(from) < Len(to) /\ MovedTo(Join(from, StdlibSlash), to)

(* C9, amended: a get_search_path() that computes its result returns the   *)
(* search directories followed by the typeshed, appended only when no      *)
(* entry equals it, so the typeshed occurs at least once, and exactly once *)
(* when the search directories hold it at most once; a result served from  *)
(* the cache has that form for the typeshed as it was when the result was  *)
(* computed, which validate() may since have replaced by its stdlib child. *)
C9_TypeshedAppended ==
  (ret.op = "get_search_path" /\ ret.outcome = "ok") =>
    LET c == conf[ret.self]
        d == c.search_directories
    IN /\ ret.fresh =>
            /\ ret.value = AppendedOnce(d, c.typeshed)
            /\ Count(ret.value, c.typeshed) >= 1
            /\ Count(d, c.typeshed) <= 1 => Count(ret.value, c.typeshed) = 1
       /\ ~ret.fresh =>
            \E t \in Ancestors(c.typeshed) :
               /\ MovedTo(t, c.typeshed)
               /\ ret.value = AppendedOnce(d, t)

C9_Witness ==
  /\ ret.op = "get_search_path" /\ ret.outcome = "ok" /\ ret.fresh
  /\ validated[ret.self]
  /\ conf[ret.self].typeshed # built[ret.self].typeshed
  /\ conf[ret.self].search_directories # <<>>
  /\ ret.value = Append(conf[ret.self].search_directories,
                        conf[ret.self].typeshed)

(* ---------------------------------------------------------------------- *)
(* C10                                                                     *)
(* ---------------------------------------------------------------------- *)
C10_Step ==
  \A i \in Instances :
    /\ (pc[i] \in ReadStages /\ FileAt(StagePath(i)).kind = "missing") =>
         /\ conf'[i] = conf[i]
         /\ pc'[i] = StageAfter(pc[i])
    /\ (pc[i] \in ReadStages /\ FileAt(StagePath(i)).kind = "malformed") =>
         /\ conf'[i] = conf[i]
         /\ pc'[i] = "raised"
         /\ raised'[i] = "EnvironmentException"
    /\ pc[i] = "raised" => (pc'[i] = "raised" /\ conf'[i] = conf[i])

(* C10: a candidate file that does not exist changes no field and the      *)
(* merge goes on with the next file; a malformed one raises at once, and   *)
(* no later file is read and neither the substitution nor the defaults run *)
(* (the object keeps the fields it had when the read raised).              *)
C10_MissingSkippedMalformedFatal == [][C10_Step]_vars

C10_Witness ==
  \E i \in Instances :
    /\ pc[i] = "raised" /\ raised[i] = "EnvironmentException"
    /\ FileAt(CONFIGURATION_FILE_LOCAL).kind = "malformed"
    /\ FileAt(CONFIGURATION_FILE).kind = "object"
    /\ NonEmpty(FileAt(CONFIGURATION_FILE).targets)
    /\ OverridePath(args[i]) # "" /\ FileAt(OverridePath(args[i])).kind = "missing"
    /\ conf[i] = Fresh

(* ---------------------------------------------------------------------- *)
(* C11                                                                     *)
(* ---------------------------------------------------------------------- *)
(* the directory whose entries validate() takes for version directories:   *)
(* the typeshed itself, or its stdlib child when it lists one *)
VersionLevel(typeshed) ==
  IF Stdlib \in ListDir(typeshed) THEN Join(typeshed, StdlibSlash)
  ELSE typeshed

Unversioned(typeshed) ==
  /\ Truthy(typeshed) /\ IsDir(typeshed)
  /\ IsDir(VersionLevel(typeshed))
  /\ \E name \in ListDir(VersionLevel(typeshed)) : Head(name) \notin Digits

C11_Step ==
  \A i \in Instances :
    (/\ pc[i] = "done" /\ pc' = pc
     /\ ret'.op = "validate" /\ ret'.self = i
     /\ Unversioned(conf[i].typeshed))
    => /\ ret'.outcome = "EnvironmentException"
       /\ validated'[i] = validated[i]

C12_SourceDirectories ==
  \A i \in Instances :
    pc[i] = "done" =>
      LET setting == HighestSetting("source_directories", FilesRead(i))
      IN /\ built[i].source_directories =
              (IF setting = <<>> THEN List(<< <<".">> >>) ELSE setting[1])
         /\ conf[i].source_directories = built[i].source_directories

C12_Witness ==
  \E i \in Instances :
    /\ pc[i] = "done"
    /\ Len(FilesRead(i)) >= 2
    /\ HighestSetting("source_directories", FilesRead(i)) = <<>>
    /\ conf[i].source_directories = List(<< <<".">> >>)

C12_WitnessFile ==
  \E i \in Instances :
    /\ pc[i] = "done"
    /\ \E n \in 1..Len(FilesRead(i)) :
         /\ NonEmpty(FilesRead(i)[n].source_directories)
         /\ NonEmpty(FilesRead(i)[n].link_trees)
         /\ FilesRead(i)[n].source_directories # FilesRead(i)[n].link_trees
         /\ conf[i].source_directories = FilesRead(i)[n].source_directories

(* ---------------------------------------------------------------------- *)
(* C13                                                                     *)
(* ---------------------------------------------------------------------- *)
LocalPaths == {LocalPath(d) : d \in Directories}

Processed == {ConfigurationPaths[k] : k \in 1..Len(ConfigurationPaths)}

(* the file had a version key when run() started *)
HadVersionKey(path) == original_files[path].version # <<>>

(* the local configurations run() passes over *)
LeftAlone(path) ==
  \/ HasSubstring(path, MockRepository)
  \/ HadVersionKey(path)
  \/ original_files[path].differential = "true"

C13_WithVersion ==
  (run.at = "returned" /\ HadVersionKey(GlobalPath)) =>
    /\ repository_files[GlobalPath] =
         [original_files[GlobalPath] EXCEPT !.version = <<command.hash>>]
    /\ Count(written, GlobalPath) = 1
    /\ \A path \in LocalPaths :
         IF path \in Processed /\ ~LeftAlone(path)
         THEN /\ repository_files[path] =
                   [original_files[path] EXCEPT
                      !.version = original_files[GlobalPath].version]
              /\ Count(written, path) = 1
         ELSE /\ repository_files[path] = original_files[path]
              /\ Count(written, path) = 0
    /\ Len(submitted) = 1
    /\ submitted[1].commit /\ submitted[1].submit = command.submit
    /\ submitted[1].after = Len(written)

C13_WithoutVersion ==
  (/\ run.at # "none"
   /\ original_files[GlobalPath].kind = "object"
   /\ ~HadVersionKey(GlobalPath)) =>
    /\ repository_files = original_files
    /\ written = <<>>
    /\ submitted = <<>>

C13_AfterSubmit ==
  submitted # <<>> =>
    /\ repository_files' = repository_files
    /\ written' = written
    /\ submitted' = submitted

(* C13: when run() returns on a global configuration that had a version    *)
(* key with value v_old, the global file has version = the new hash, every *)
(* processed local configuration that had no version key, no truthy        *)
(* differential key and no mock_repository in its path has version =       *)
(* v_old, every other local configuration is unwritten and unchanged, and  *)
(* submit_changes has been called exactly once, after the last write and   *)
(* with nothing written after it. When the global configuration has no     *)
(* version key, nothing is written and submit_changes is not called.       *)
C13_GlobalVersionUpdate ==
  [](C13_WithVersion /\ C13_WithoutVersion) /\ [][C13_AfterSubmit]_vars

C13_Witness ==
  /\ run.at = "returned"
  /\ original_files[GlobalPath].version = <<"o">>
  /\ repository_files[GlobalPath].version = <<"h">>
  /\ command.paths = <<DirP, DirQ>>
  /\ original_files[LocalPath(DirP)] = Json(<<>>, "false")
  /\ repository_files[LocalPath(DirP)] = Json(<<"o">>, "false")
  /\ original_files[LocalPath(DirQ)] = Json(<<"l">>, "true")
  /\ repository_files[LocalPath(DirQ)] = Json(<<"l">>, "true")
  /\ written = <<GlobalPath, LocalPath(DirP)>>
  /\ Len(submitted) = 1

====
